---- MODULE Spec2Model ----
(***************************************************************************)
(* A model of rgit (kamilWyszynski1/rgit): the object codec                *)
(* (src/src/object.rs), the repository locator and object store            *)
(* (src/src/repository.rs).                                                *)
(*                                                                         *)
(* A Rust String is modelled as the sequence of its UTF-8 bytes (integers  *)
(* 0..255).  Offsets are byte offsets counted from 0, as in the source;    *)
(* slicing at an offset that is not a character boundary, or out of range, *)
(* panics, as it does in Rust.                                             *)
(***************************************************************************)
EXTENDS Integers, Sequences, FiniteSets, TLC

VARIABLES
    kin,        \* KVLM codec: how the input was built
    kvals,      \* KVLM codec: the values produced so far (input first)
    ksteps,     \* KVLM codec: the operations applied so far
    praw,       \* frame parser: the input stream and how it was built
    pres,       \* frame parser: the result of GitObject::object_read
    gitdir,     \* object store: the objects directory under .git
    writer,     \* object store: the process running GitObject::object_write
    reader,     \* object store: the last RGitRepository::object_read
    disk,       \* discovery: the directories, their .git entries, the config
    finder,     \* discovery: the call of repo_find and its recursion
    site,       \* creation: what is at the path handed to repo_create
    creator,    \* creation: the calls of repo_create and of init made so far
    tin,        \* tree parser: the payload and how it was built
    tres        \* tree parser: the result of tree_parse

vars ==
    <<kin, kvals, ksteps, praw, pres, gitdir, writer, reader, disk, finder, site, creator,
      tin, tres>>
treeVars == <<tin, tres>>
createVars == <<site, creator>>
findVars == <<disk, finder>>
frameVars == <<praw, pres>>
storeVars == <<gitdir, writer, reader>>
kvlmVars == <<kin, kvals, ksteps>>

(***************************************************************************)
(* Bytes and strings                                                       *)
(***************************************************************************)
NUL == 0
NL == 10
SP == 32

\* the one-character strings "a", "b" and U+00E9 (two bytes in UTF-8)
StrA == <<97>>
StrB == <<98>>
StrEAcute == <<195, 169>>

\* a UTF-8 continuation byte is 10xxxxxx
IsContinuation(b) == b >= 128 /\ b < 192

\* str::is_char_boundary, offset i counted from 0
IsCharBoundary(s, i) ==
    /\ i >= 0
    /\ i <= Len(s)
    /\ (i = 0 \/ i = Len(s) \/ ~IsContinuation(s[i + 1]))

\* &s[a..b] is defined (does not panic)
SliceOk(s, a, b) == a <= b /\ IsCharBoundary(s, a) /\ IsCharBoundary(s, b)

\* &s[a..b], offsets from 0, b exclusive
Slice(s, a, b) == SubSeq(s, a + 1, b)

\* s[from..].find(b) mapped back to an offset of s; -1 is None
FindFrom(s, from, b) ==
    LET hits == {i \in from..(Len(s) - 1) : s[i + 1] = b}
    IN  IF hits = {} THEN -1
        ELSE CHOOSE i \in hits : \A j \in hits : i <= j

\* s.chars().nth(n): the first byte of the n-th character (from 0); -1 is None
CharsNth(s, n) ==
    LET starts == {i \in 1..Len(s) : ~IsContinuation(s[i])}
        at == {i \in starts : Cardinality({j \in starts : j < i}) = n}
    IN  IF at = {} THEN -1 ELSE s[CHOOSE i \in at : TRUE]

RECURSIVE Concat(_)
\* the concatenation of a sequence of strings
Concat(ss) == IF ss = <<>> THEN <<>> ELSE Head(ss) \o Concat(Tail(ss))

RECURSIVE ReplaceNlSpByNl(_)
\* s.replace("\n ", "\n")
ReplaceNlSpByNl(s) ==
    IF s = <<>> THEN <<>>
    ELSE IF Len(s) >= 2 /\ s[1] = NL /\ s[2] = SP
         THEN <<NL>> \o ReplaceNlSpByNl(SubSeq(s, 3, Len(s)))
         ELSE <<s[1]>> \o ReplaceNlSpByNl(Tail(s))

RECURSIVE ReplaceNlByNlSp(_)
\* s.replace("\n", "\n ")
ReplaceNlByNlSp(s) ==
    IF s = <<>> THEN <<>>
    ELSE IF s[1] = NL
         THEN <<NL, SP>> \o ReplaceNlByNlSp(Tail(s))
         ELSE <<s[1]>> \o ReplaceNlByNlSp(Tail(s))

(***************************************************************************)
(* IndexMap<String, Vec<String>>: a sequence of entries [k, v] with        *)
(* distinct keys, in insertion order.                                      *)
(***************************************************************************)
MapHas(dct, key) == \E i \in 1..Len(dct) : dct[i].k = key

MapIndex(dct, key) == CHOOSE i \in 1..Len(dct) : dct[i].k = key

MapGet(dct, key) == dct[MapIndex(dct, key)].v

\* IndexMap::insert: replaces the value in place, or appends a new entry
MapInsert(dct, key, val) ==
    IF MapHas(dct, key)
    THEN [dct EXCEPT ![MapIndex(dct, key)].v = val]
    ELSE Append(dct, [k |-> key, v |-> val])

\* dct.entry(key).or_insert(vec![]).push(value)
MapPush(dct, key, value) ==
    IF MapHas(dct, key)
    THEN [dct EXCEPT ![MapIndex(dct, key)].v = Append(@, value)]
    ELSE Append(dct, [k |-> key, v |-> <<value>>])

(***************************************************************************)
(* Results: Ok with a value, or a panic (the process aborts).              *)
(***************************************************************************)
MapOk(dct) == [tag |-> "Map", text |-> <<>>, dct |-> dct]
TextOk(s) == [tag |-> "Text", text |-> s, dct |-> <<>>]
Panic == [tag |-> "Panic", text |-> <<>>, dct |-> <<>>]

(***************************************************************************)
(* kvlm_parse                                                              *)
(***************************************************************************)
RECURSIVE ValueEnd(_, _)
\* the loop of kvlm_parse: from `end`, the offset of the first "\n" whose next
\* character (raw.chars().nth(end + 1)) is not a space; -1 when raw[end + 1..]
\* panics
ValueEnd(raw, end) ==
    IF ~SliceOk(raw, end + 1, Len(raw)) THEN -1
    ELSE LET v == FindFrom(raw, end + 1, NL)
         IN  IF v = -1 THEN end
             ELSE IF CharsNth(raw, v + 1) # SP THEN v
             ELSE ValueEnd(raw, v)

RECURSIVE kvlm_parse(_, _, _)
kvlm_parse(raw, start, dct) ==
    IF ~SliceOk(raw, start, Len(raw)) THEN Panic
    ELSE
    LET spc == FindFrom(raw, start, SP)
        nl == FindFrom(raw, start, NL)
    IN  IF spc = -1 \/ (spc # -1 /\ nl # -1 /\ nl < spc)
        THEN IF SliceOk(raw, start + 1, Len(raw))
             THEN MapOk(MapInsert(dct, <<>>, <<Slice(raw, start + 1, Len(raw))>>))
             ELSE Panic
        ELSE LET key == Slice(raw, start, spc)
                 end == ValueEnd(raw, start)
             IN  IF end = -1 \/ ~SliceOk(raw, spc + 1, end) THEN Panic
                 ELSE kvlm_parse(raw, end + 1,
                        MapPush(dct, key, ReplaceNlSpByNl(Slice(raw, spc + 1, end))))

(***************************************************************************)
(* kvlm_serialize                                                          *)
(***************************************************************************)
\* one line per value of one key
SerializeValues(key, vals) ==
    Concat([i \in 1..Len(vals) |-> key \o <<SP>> \o ReplaceNlByNlSp(vals[i]) \o <<NL>>])

kvlm_serialize(kvlm) ==
    IF ~MapHas(kvlm, <<>>) \/ MapGet(kvlm, <<>>) = <<>> THEN Panic
    ELSE TextOk(
           Concat([i \in 1..Len(kvlm) |->
                     IF kvlm[i].k = <<>> THEN <<>>
                     ELSE SerializeValues(kvlm[i].k, kvlm[i].v)])
           \o <<NL>> \o MapGet(kvlm, <<>>)[1])

(***************************************************************************)
(* GitObjectType and GitObject                                             *)
(***************************************************************************)
GitObjectTypes == {"commit", "tree", "tag", "blob"}

TagBlob == <<98, 108, 111, 98>>
TagCommit == <<99, 111, 109, 109, 105, 116>>
TagTree == <<116, 114, 101, 101>>
TagTag == <<116, 97, 103>>

\* GitObjectType::fmt
TypeFmt(t) ==
    CASE t = "commit" -> TagCommit
      [] t = "tree" -> TagTree
      [] t = "tag" -> TagTag
      [] t = "blob" -> TagBlob

\* GitObjectType::from_str; "" is the Err of an unsupported format
TypeFromStr(s) ==
    CASE s = TagCommit -> "commit"
      [] s = TagTree -> "tree"
      [] s = TagTag -> "tag"
      [] s = TagBlob -> "blob"
      [] OTHER -> ""

\* Option<String> and Option<IndexMap>
None == [some |-> FALSE, val |-> <<>>]
Some(v) == [some |-> TRUE, val |-> v]

NoObject == [object_type |-> "", data |-> None, kvlm |-> None]

\* Result<GitObject>: Ok, Err (returned to the caller) or Panic (abort)
ObjOk(o) == [tag |-> "Ok", msg |-> "", obj |-> o]
ObjErr(m) == [tag |-> "Err", msg |-> m, obj |-> NoObject]
ObjPanic(m) == [tag |-> "Panic", msg |-> m, obj |-> NoObject]

\* GitObject::deserialize on the object built by GitObject::new
GitObject_deserialize(go, data) ==
    CASE go.object_type = "commit" ->
            LET r == kvlm_parse(data, 0, <<>>)
            IN  IF r.tag = "Panic" THEN ObjPanic("kvlm_parse")
                ELSE ObjOk([go EXCEPT !.kvlm = Some(r.dct)])
      [] go.object_type = "tree" -> ObjPanic("not yet implemented")
      [] go.object_type = "tag" -> ObjPanic("not yet implemented")
      [] go.object_type = "blob" -> ObjOk([go EXCEPT !.data = Some(data)])

\* GitObject::new(repo, data, Some(object_type))
GitObject_new(data, object_type) ==
    LET go == [object_type |-> object_type, data |-> data, kvlm |-> None]
    IN  IF data.some THEN GitObject_deserialize(go, data.val) ELSE ObjOk(go)

KvlmIsNotSet == <<107, 118, 108, 109, 32, 105, 115, 32, 110, 111, 116, 32, 115, 101, 116>>

\* GitObject::serialize: the payload, or a panic
GitObject_serialize(go) ==
    CASE go.object_type = "commit" ->
            IF go.kvlm.some THEN kvlm_serialize(go.kvlm.val) ELSE TextOk(KvlmIsNotSet)
      [] go.object_type = "tree" -> Panic
      [] go.object_type = "tag" -> Panic
      [] go.object_type = "blob" ->
            IF go.data.some THEN TextOk(go.data.val) ELSE Panic

(***************************************************************************)
(* Decimal numbers                                                         *)
(***************************************************************************)
Digit0 == 48
PlusSign == 43

RECURSIVE ToDecimal(_)
\* format!("{}", n) of a usize
ToDecimal(n) ==
    IF n < 10 THEN <<Digit0 + n>>
    ELSE Append(ToDecimal(n \div 10), Digit0 + (n % 10))

IsDigit(b) == b >= Digit0 /\ b <= Digit0 + 9

RECURSIVE DigitsValue(_)
DigitsValue(s) ==
    IF s = <<>> THEN 0
    ELSE 10 * DigitsValue(SubSeq(s, 1, Len(s) - 1)) + (s[Len(s)] - Digit0)

\* str::parse::<usize>: an optional '+', then one or more digits; -1 is the Err
ParseUsize(s) ==
    LET digits == IF s # <<>> /\ s[1] = PlusSign THEN Tail(s) ELSE s
    IN  IF digits # <<>> /\ \A i \in 1..Len(digits) : IsDigit(digits[i])
        THEN DigitsValue(digits)
        ELSE -1

(***************************************************************************)
(* GitObject::object_read: the frame parser                                *)
(***************************************************************************)
\* a guard that only rejects a declared size larger than the payload
SizeMatchesAtMost(size, raw, x, y) == size <= Len(raw) - y - x - 1

\* the integrity guard: the declared size against the bytes after the NUL
SizeMatches(size, raw, x, y) == size = Len(raw) - y - x - 1

GitObject_object_read(raw) ==
    LET x == FindFrom(raw, 0, SP)
    IN  IF x = -1 THEN ObjErr("space not found")
        ELSE
        LET yAbs == FindFrom(raw, x, NUL)
            y == yAbs - x
        IN  IF yAbs = -1 THEN ObjPanic("0x00 not found")
            ELSE
            LET size == ParseUsize(Slice(raw, x + 1, x + y))
                fmt == TypeFromStr(Slice(raw, 0, x))
            IN  IF size = -1 THEN ObjErr("invalid digit found in string")
                ELSE IF ~SizeMatches(size, raw, x, y)
                THEN ObjErr("malformed object: bad length")
                ELSE IF fmt = "" THEN ObjErr("unsupported object format")
                ELSE GitObject_new(Some(Slice(raw, x + y + 1, Len(raw))), fmt)

(***************************************************************************)
(* The digest.  crypto::sha1 is not computed: Sha1Hex is a stand-in with   *)
(* SHA-1's interface, 160 bits rendered as 40 lowercase hex digits, that   *)
(* depends on every byte hashed and on their number, and has no collision  *)
(* among inputs of fewer than 20 bytes.                                    *)
(***************************************************************************)
DigestHexLen == 40
ShardLen == 2

\* one lowercase hex digit
HexDigit(n) == IF n < 10 THEN Digit0 + n ELSE 97 + (n - 10)

RECURSIVE NibbleSum(_, _, _)
\* what the bytes from the i-th on add to nibble j (from 0)
NibbleSum(bytes, i, j) ==
    IF i > Len(bytes) THEN 0
    ELSE (IF (2 * (i - 1)) % DigestHexLen = j THEN bytes[i] \div 16 ELSE 0)
         + (IF (2 * (i - 1) + 1) % DigestHexLen = j THEN bytes[i] % 16 ELSE 0)
         + NibbleSum(bytes, i + 1, j)

\* hasher.input_str(bytes); hasher.result_str()
Sha1Hex(bytes) ==
    [j \in 1..DigestHexLen |->
        HexDigit((NibbleSum(bytes, 1, j - 1)
                  + (IF j = DigestHexLen THEN Len(bytes) ELSE 0)) % 16)]

(***************************************************************************)
(* Compression.  flate2's zlib stream is modelled by its envelope: the     *)
(* two header bytes, the length of the data, the data, a checksum of the   *)
(* data.  A stream cut short or altered does not decompress.               *)
(***************************************************************************)
ZlibHeader == <<120, 156>>

RECURSIVE ByteSum(_)
ByteSum(b) == IF b = <<>> THEN 0 ELSE b[1] + ByteSum(Tail(b))

Checksum(b) == (1 + ByteSum(b)) % 256

\* ZlibEncoder::new(vec![], Compression::default()); write_all; finish
Compress(b) == ZlibHeader \o <<Len(b)>> \o b \o <<Checksum(b)>>

\* String::from_utf8 accepts the bytes (one- and two-byte characters)
ValidUtf8(b) ==
    \A i \in 1..Len(b) :
        /\ b[i] >= 192 => (i < Len(b) /\ IsContinuation(b[i + 1]))
        /\ IsContinuation(b[i]) => (i > 1 /\ b[i - 1] >= 192)

\* ZlibDecoder::read_to_string: the text, or Panic for the io::Error
Decompress(c) ==
    IF /\ Len(c) >= 4
       /\ SubSeq(c, 1, 2) = ZlibHeader
       /\ c[3] = Len(c) - 4
       /\ c[Len(c)] = Checksum(SubSeq(c, 4, Len(c) - 1))
       /\ ValidUtf8(SubSeq(c, 4, Len(c) - 1))
    THEN TextOk(SubSeq(c, 4, Len(c) - 1))
    ELSE Panic

(***************************************************************************)
(* The objects directory: .git/objects is a directory, absent or a file;   *)
(* shards are its two-character subdirectories; files maps the path        *)
(* <<shard, name>> of each object file to its content.                     *)
(***************************************************************************)
NoFiles == [p \in {} |-> <<>>]

\* path.exists() && path.is_dir() for .git/objects/<shard>
ShardIsDir(fs, shard) == fs.objectsKind = "dir" /\ shard \in fs.shards

\* fs::create_dir_all(.git/objects/<shard>) succeeds
CanCreateShard(fs) == fs.objectsKind # "file"

CreateShard(fs, shard) ==
    [fs EXCEPT !.objectsKind = "dir", !.shards = @ \cup {shard}]

\* the path of GitObject::object_write: ["objects", &sha[..2], &sha[2..]]
WriteObjectPathShard3(sha) == <<Slice(sha, 0, 3), Slice(sha, 3, Len(sha))>>

WriteObjectPath(sha) == <<Slice(sha, 0, ShardLen), Slice(sha, ShardLen, Len(sha))>>

\* the path of RGitRepository::object_read: ["objects", &sha[0..2], &sha[2..]]
ReadObjectPath(sha) == <<Slice(sha, 0, ShardLen), Slice(sha, ShardLen, Len(sha))>>

\* File::create(path): the file exists and is empty
CreateFile(fs, path) ==
    [fs EXCEPT !.files = [q \in DOMAIN @ \cup {path} |-> IF q = path THEN <<>> ELSE @[q]]]

AppendFile(fs, path, bytes) == [fs EXCEPT !.files[path] = @ \o bytes]

(***************************************************************************)
(* GitObject::object_write                                                 *)
(***************************************************************************)
\* the header and the payload: format!("{} {}{}{}", fmt, data.len(), 0 as char, data)
FramedBytes(object_type, data) ==
    TypeFmt(object_type) \o <<SP>> \o ToDecimal(Len(data)) \o <<NUL>> \o data

\* the bytes handed to the hasher
HashedBytes(object_type, data) == FramedBytes(object_type, data)

\* Result<String> of object_write
WriteNone == [tag |-> "", sha |-> <<>>, msg |-> ""]
WriteOk(sha) == [tag |-> "Ok", sha |-> sha, msg |-> ""]
WriteErr(m) == [tag |-> "Err", sha |-> <<>>, msg |-> m]
WritePanic(m) == [tag |-> "Panic", sha |-> <<>>, msg |-> m]

NoCall == [object_type |-> "", data |-> None, persist |-> FALSE]

\* RGitRepository::object_read(sha)
Repo_object_read(fs, sha) ==
    IF ~(SliceOk(sha, 0, ShardLen) /\ SliceOk(sha, ShardLen, Len(sha)))
    THEN ObjPanic("byte index out of range")
    ELSE LET path == ReadObjectPath(sha)
         IN  IF ~ShardIsDir(fs, path[1]) THEN ObjErr("object not found")
             ELSE IF path \notin DOMAIN fs.files THEN ObjErr("could not open a file")
             ELSE LET s == Decompress(fs.files[path])
                  IN  IF s.tag = "Panic" THEN ObjErr("could not read to string")
                      ELSE GitObject_object_read(s.text)

(***************************************************************************)
(* Repositories and their discovery (repository.rs).                       *)
(* The directories form one chain below the root: directory n lies n       *)
(* levels deep and directory RootDir is "/".  A path is a spelling with    *)
(* the directory it resolves to: "abs" is the canonical absolute path of   *)
(* the directory, "dot" is the relative path ".", "link" is a path through *)
(* a symbolic link, "missing" is a path that names nothing.                *)
(***************************************************************************)
RootDir == 0

AbsPath(n) == [form |-> "abs", dir |-> n]
DotPath(cwd) == [form |-> "dot", dir |-> cwd]
LinkPath(n) == [form |-> "link", dir |-> n]
MissingPath == [form |-> "missing", dir |-> RootDir]

PathExists(path) == path.form # "missing"

\* the directory above directory n; the root is its own parent
ParentDir(n) == IF n = RootDir THEN RootDir ELSE n - 1

\* fs::canonicalize(path.join("..")): symbolic links and "." are resolved, the
\* result is the canonical absolute path; an io::Error when nothing is there
CanonicalParent(path) ==
    IF PathExists(path) THEN [ok |-> TRUE, path |-> AbsPath(ParentDir(path.dir))]
    ELSE [ok |-> FALSE, path |-> path]

\* path.join(".git").exists()
GitExists(d, path) == PathExists(path) /\ d.git[path.dir] # "none"

\* path.join(".git").is_dir()
GitIsDir(d, path) == PathExists(path) /\ d.git[path.dir] = "dir"

\* the file .git/config: whether it exists, whether Ini::load accepts it,
\* whether it has the section core and the key repositoryformatversion, and
\* the value of the key
Config(exists, parses, core, key, value) ==
    [exists |-> exists, parses |-> parses, core |-> core, key |-> key, value |-> value]

VersionZero == Some(<<Digit0>>)
VersionOne == Some(<<Digit0 + 1>>)

\* HashMap::default()
NoConf == Config(FALSE, FALSE, FALSE, FALSE, None)

\* Result<Option<RGitRepository>>
RepoNotRun == [tag |-> "", repo |-> None, msg |-> ""]
RepoOk(work_tree, conf) ==
    [tag |-> "Ok", repo |-> Some([work_tree |-> work_tree, conf |-> conf]), msg |-> ""]
RepoNone == [tag |-> "Ok", repo |-> None, msg |-> ""]
RepoErr(m) == [tag |-> "Err", repo |-> None, msg |-> m]
RepoPanic(m) == [tag |-> "Panic", repo |-> None, msg |-> m]

\* RGitRepository::init(path, force)
RGitRepository_init(d, path, force) ==
    LET cf == IF GitIsDir(d, path) THEN Some(d.conf) ELSE None
        load == cf.some /\ cf.val.exists
        conf == IF load THEN d.conf ELSE NoConf
    IN  IF ~(force \/ GitIsDir(d, path)) THEN RepoErr("not a git repository")
        ELSE IF ~cf.some /\ ~force THEN RepoErr("configuration file is missing")
        ELSE IF load /\ ~d.conf.parses THEN RepoPanic("Ini::load")
        ELSE IF force THEN RepoOk(path, conf)
        ELSE IF ~conf.core THEN RepoPanic("no section core")
        ELSE IF ~conf.key THEN RepoPanic("no key repositoryformatversion")
        ELSE IF conf.value.some /\ conf.value # VersionZero
        THEN RepoErr("Unsupported repositoryformatversion")
        ELSE RepoOk(path, conf)

\* a comparison that never finds the root
AtRootNever(parent, path) == FALSE

\* parent == path
AtRoot(parent, path) == parent = path

\* one level of repo_find(Some(path), Some(required)): its result, or the path
\* it hands to the recursive call
repo_find(d, path, required) ==
    IF GitIsDir(d, path)
    THEN [done |-> TRUE, res |-> RGitRepository_init(d, path, FALSE), path |-> path]
    ELSE LET parent == CanonicalParent(path)
         IN  IF ~parent.ok
             THEN [done |-> TRUE, res |-> RepoErr("io error"), path |-> path]
             ELSE IF AtRoot(parent.path, path)
             THEN [done |-> TRUE, path |-> path,
                   res |-> IF required THEN RepoErr("No git directory") ELSE RepoNone]
             ELSE [done |-> FALSE, res |-> RepoNotRun, path |-> parent.path]

(***************************************************************************)
(* repo_create (repository.rs).  The site is the path handed to            *)
(* repo_create: absent, a file or a directory; a directory has or has not  *)
(* entries other than .git; .git is absent, a file or a directory with the *)
(* directories dirs (paths below .git) and the files description, HEAD and *)
(* config.  A config file is what Ini::load makes of it: whether it loads, *)
(* and its entries [section, key, value] in order.                         *)
(***************************************************************************)
IniEntry(section, key, value) == [section |-> section, key |-> key, value |-> value]

NoIniFile == [exists |-> FALSE, parses |-> FALSE, entries |-> <<>>]
IniFile(entries) == [exists |-> TRUE, parses |-> TRUE, entries |-> entries]
BadIniFile == [exists |-> TRUE, parses |-> FALSE, entries |-> <<>>]

StrFalse == <<102, 97, 108, 115, 101>>

\* repo_default_config(), with the key of the format version under another name
repo_default_config_renamed ==
    <<IniEntry("core", "repositoryformat", VersionZero),
      IniEntry("core", "filemode", Some(StrFalse)),
      IniEntry("core", "bare", Some(StrFalse))>>

\* repo_default_config()
repo_default_config ==
    <<IniEntry("core", "repositoryformatversion", VersionZero),
      IniEntry("core", "filemode", Some(StrFalse)),
      IniEntry("core", "bare", Some(StrFalse))>>

\* conf.get(section): whether the section is there
IniHasSection(entries, section) ==
    \E i \in 1..Len(entries) : entries[i].section = section

\* conf.get(section).get(key): whether the key is there
IniHasKey(entries, section, key) ==
    \E i \in 1..Len(entries) : entries[i].section = section /\ entries[i].key = key

\* the value of a key that is there (the last one given)
IniValue(entries, section, key) ==
    LET at == {i \in 1..Len(entries) : entries[i].section = section /\ entries[i].key = key}
        last == CHOOSE i \in at : \A j \in at : j <= i
    IN  entries[last].value

\* what RGitRepository::init sees of a config file
ConfigOf(file) ==
    LET core == IniHasSection(file.entries, "core")
        key == IniHasKey(file.entries, "core", "repositoryformatversion")
    IN  Config(file.exists, file.parses, core, key,
               IF key THEN IniValue(file.entries, "core", "repositoryformatversion")
               ELSE None)

\* "Unnamed repository; edit this file 'description' to name the repository.\n"
DescriptionText ==
    <<85, 110, 110, 97, 109, 101, 100, 32, 114, 101, 112, 111, 115, 105, 116, 111,
      114, 121, 59, 32, 101, 100, 105, 116, 32, 116, 104, 105, 115, 32, 102, 105,
      108, 101, 32, 39, 100, 101, 115, 99, 114, 105, 112, 116, 105, 111, 110, 39,
      32, 116, 111, 32, 110, 97, 109, 101, 32, 116, 104, 101, 32, 114, 101, 112,
      111, 115, 105, 116, 111, 114, 121, 46, 10>>

\* "ref: refs/heads/main\n"
HeadTextMain ==
    <<114, 101, 102, 58, 32, 114, 101, 102, 115, 47, 104, 101, 97, 100, 115, 47,
      109, 97, 105, 110, 10>>

\* "ref: refs/heads/master\n"
HeadText ==
    <<114, 101, 102, 58, 32, 114, 101, 102, 115, 47, 104, 101, 97, 100, 115, 47,
      109, 97, 115, 116, 101, 114, 10>>

\* a site with nothing at the path
AbsentSite ==
    [kind |-> "absent", others |-> FALSE, git |-> "none", dirs |-> {},
     description |-> None, head |-> None, config |-> NoIniFile]

\* the disk as RGitRepository::init reads it at the site, and the site's path
SiteDisk(s) ==
    [git |-> [n \in {RootDir} |-> IF s.kind = "dir" THEN s.git ELSE "none"],
     conf |-> ConfigOf(s.config), cwd |-> RootDir]
SitePath == AbsPath(RootDir)

\* Result<()> of repo_create
CreateOk == [tag |-> "Ok", msg |-> ""]
CreateErr(m) == [tag |-> "Err", msg |-> m]
CreatePanic(m) == [tag |-> "Panic", msg |-> m]

\* the prefixes of a path below .git, the path included
PathPrefixes(path) == {SubSeq(path, 1, n) : n \in 1..Len(path)}

\* fs::create_dir_all(work_tree): the directory is there
CreateWorkTree(s) == IF s.kind = "absent" THEN [s EXCEPT !.kind = "dir"] ELSE s

\* repo_dir(path, Some(true)) on a site whose work tree is a directory:
\* create_dir_all makes .git and every directory of the path
RepoDirMkdir(s, path) ==
    [s EXCEPT !.git = "dir", !.dirs = @ \cup PathPrefixes(path)]

\* the operations of repo_create on the file system, in order
CreateOps ==
    <<"read_dir", "create_dir_all", "branches", "objects", "refs/tags", "refs/heads",
      "description", "HEAD", "config">>

\* the site after one operation of repo_create has succeeded
CreateStep(s, op) ==
    CASE op = "read_dir" -> s
      [] op = "create_dir_all" -> CreateWorkTree(s)
      [] op = "branches" -> RepoDirMkdir(s, <<"branches">>)
      [] op = "objects" -> RepoDirMkdir(s, <<"objects">>)
      [] op = "refs/tags" -> RepoDirMkdir(s, <<"refs", "tags">>)
      [] op = "refs/heads" -> RepoDirMkdir(s, <<"refs", "heads">>)
      [] op = "description" -> [s EXCEPT !.description = Some(DescriptionText)]
      [] op = "HEAD" -> [s EXCEPT !.head = Some(HeadText)]
      [] op = "config" -> [s EXCEPT !.config = IniFile(repo_default_config)]

RECURSIVE CreateFrom(_, _, _)
\* repo_create from its i-th operation on; the operation failAt fails with an
\* io::Error (none fails when failAt = 0): <<result, site>>
CreateFrom(s, i, failAt) ==
    IF i > Len(CreateOps) THEN <<CreateOk, s>>
    ELSE IF i = failAt /\ ~(CreateOps[i] = "read_dir" /\ s.kind = "absent")
    THEN <<CreateErr("io error"), s>>
    ELSE CreateFrom(CreateStep(s, CreateOps[i]), i + 1, failAt)

\* repo_create(path): <<result, site>>
repo_create(s, failAt) ==
    LET repo == RGitRepository_init(SiteDisk(s), SitePath, TRUE)
    IN  IF repo.tag # "Ok" THEN <<CreatePanic(repo.msg), s>>
        ELSE IF s.kind = "file" THEN <<CreateErr("is not a directory"), s>>
        ELSE IF s.kind = "dir" /\ failAt # 1 /\ (s.others \/ s.git # "none")
        THEN <<CreateErr("is not empty"), s>>
        ELSE CreateFrom(s, 1, failAt)

(***************************************************************************)
(* Tree leaves (leaf.rs)                                                   *)
(***************************************************************************)
ShaBytes == 20      \* raw[y + 1..y + 21]
IsizeBytes == 8     \* size_of::<isize>()

\* Result<(usize, GitTreeLeaf)>
LeafOk(pos, leaf) == [tag |-> "Ok", msg |-> "", pos |-> pos, leaf |-> leaf]
LeafErr(m) == [tag |-> "Err", msg |-> m, pos |-> 0, leaf |-> <<>>]
LeafPanic(m) == [tag |-> "Panic", msg |-> m, pos |-> 0, leaf |-> <<>>]

\* GitTreeLeaf::new(mode, path, sha)
GitTreeLeaf(mode, path, sha) == [mode |-> mode, path |-> path, sha |-> sha]

RECURSIVE HexNibbles(_)
\* the hex digits of bytes, two for each
HexNibbles(bytes) ==
    IF bytes = <<>> THEN <<>>
    ELSE <<HexDigit(bytes[1] \div 16), HexDigit(bytes[1] % 16)>> \o HexNibbles(Tail(bytes))

RECURSIVE StripZeros(_)
\* a number's digits without leading zeros
StripZeros(h) == IF Len(h) > 1 /\ h[1] = Digit0 THEN StripZeros(Tail(h)) ELSE h

\* format!("{:x}", isize::from_be_bytes(bytes))
FormatHex(bytes) == StripZeros(HexNibbles(bytes))

\* GitTreeLeaf::tree_parse_one(raw, Some(start))
tree_parse_one(raw, start) ==
    LET x == FindFrom(raw, 0, SP)
    IN  IF x = -1 THEN LeafErr("space not found")
        ELSE IF x < start THEN LeafPanic("attempt to subtract with overflow")
        ELSE IF ~(x - start = 5 \/ x - start = 6) THEN LeafPanic("assertion failed")
        ELSE IF ~SliceOk(raw, start, x) THEN LeafPanic("byte index is not a char boundary")
        ELSE LET mode == Slice(raw, start, x)
             IN  IF ~SliceOk(mode, x, Len(mode))
                 THEN LeafPanic("byte index out of range")
                 ELSE LET y == FindFrom(Slice(mode, x, Len(mode)), 0, NUL)
                      IN  IF y = -1 THEN LeafErr("0x00 not found")
                          ELSE IF ~SliceOk(raw, x + 1, y)
                          THEN LeafPanic("byte index out of range")
                          ELSE IF ~SliceOk(raw, y + 1, y + 1 + ShaBytes)
                          THEN LeafPanic("byte index out of range")
                          ELSE LET path == Slice(raw, x + 1, y)
                                   bytes == Slice(raw, y + 1, y + 1 + ShaBytes)
                               IN  IF Len(bytes) # IsizeBytes
                                   THEN LeafErr("could not convert slice to array")
                                   ELSE LeafOk(y + 1 + ShaBytes,
                                               GitTreeLeaf(mode, path, FormatHex(bytes)))

\* Result<Vec<GitTreeLeaf>>
TreeNotRun == [tag |-> "", msg |-> "", leaves |-> <<>>]
TreeOk(leaves) == [tag |-> "Ok", msg |-> "", leaves |-> leaves]
TreeFailed(r) == [tag |-> r.tag, msg |-> r.msg, leaves |-> <<>>]

RECURSIVE tree_parse_from(_, _, _)
\* the loop of tree_parse with pos and ret
tree_parse_from(raw, pos, ret) ==
    IF ~(pos < Len(raw)) THEN TreeOk(ret)
    ELSE LET one == tree_parse_one(raw, pos)
         IN  IF one.tag # "Ok" THEN TreeFailed(one)
             ELSE tree_parse_from(raw, one.pos, Append(ret, one.leaf))

\* tree_parse(raw)
tree_parse(raw) == tree_parse_from(raw, 0, <<>>)

(***************************************************************************)
(* The variables of a part of the program that a specification leaves out  *)
(* keep these values.                                                      *)
(***************************************************************************)
NotRun == [tag |-> "", msg |-> "", obj |-> NoObject]

KvlmUnused == kin = [kind |-> "", parts |-> <<>>] /\ kvals = <<>> /\ ksteps = <<>>

FrameUnused ==
    /\ praw = [framed |-> FALSE, tag |-> <<>>, declared |-> 0, payload |-> <<>>, raw |-> <<>>]
    /\ pres = NotRun

\* the writer before its call, with the object files there are
IdleWriter(files) ==
    [pc |-> "start", call |-> NoCall, sha |-> <<>>, path |-> <<>>, buf |-> <<>>,
     res |-> WriteNone, before |-> files]

IdleReader == [sha |-> <<>>, res |-> NotRun, after |-> FALSE]

StoreUnused ==
    /\ gitdir = [objectsKind |-> "dir", shards |-> {}, files |-> NoFiles]
    /\ writer = IdleWriter(NoFiles)
    /\ reader = IdleReader

\* the finder before its call
IdleFinder ==
    [pc |-> "start", start |-> MissingPath, path |-> MissingPath, required |-> TRUE,
     res |-> RepoNotRun]

FindUnused ==
    /\ disk = [git |-> [n \in {RootDir} |-> "none"], conf |-> NoConf, cwd |-> RootDir]
    /\ finder = IdleFinder

\* the creator before its calls
IdleCreator == [calls |-> 0, res |-> [tag |-> "", msg |-> ""], before |-> AbsentSite,
                opened |-> RepoNotRun]

CreateUnused == site = AbsentSite /\ creator = IdleCreator

TreeUnused ==
    /\ tin = [wellformed |-> FALSE, entries |-> <<>>, raw |-> <<>>]
    /\ tres = TreeNotRun

(***************************************************************************)
(* The KVLM codec applied to bounded inputs                                *)
(***************************************************************************)
MaxValLen == 2      \* characters in a generated value or message
MaxMapValues == 2   \* values in a generated map, over all its keys
MaxRawLen == 5      \* characters in a generated raw payload
MaxRawLines == 3    \* header lines in a generated payload
MaxHeaderLen == 1   \* characters in a generated header value
MaxKvlmSteps == 3   \* codec calls applied to one input

\* the characters of the generated texts: 'a', ' ', '\n', U+00E9
KvChars == {StrA, <<SP>>, <<NL>>, StrEAcute}

RECURSIVE StringsUpTo(_, _)
\* the strings of at most n characters drawn from chars
StringsUpTo(chars, n) ==
    IF n = 0 THEN {<<>>}
    ELSE LET shorter == StringsUpTo(chars, n - 1)
         IN  shorter \cup {s \o c : s \in shorter, c \in chars}

KvKeys == {StrA, StrB}

RECURSIVE ValueLists(_, _)
\* the lists of 1..n values drawn from values
ValueLists(values, n) ==
    IF n = 0 THEN {}
    ELSE {<<v>> : v \in values}
         \cup {Append(l, v) : l \in ValueLists(values, n - 1), v \in values}

\* well-formed maps: distinct non-empty keys without ' ' or '\n', each with one
\* or more values, then the message entry
WellFormedMaps(values, maxValues) ==
    LET one == {<<[k |-> key, v |-> l]>> : key \in KvKeys, l \in ValueLists(values, maxValues)}
        two == {m \in {<<[k |-> k1, v |-> <<v1>>], [k |-> k2, v |-> <<v2>>]>> :
                          k1 \in KvKeys, k2 \in KvKeys, v1 \in values, v2 \in values} :
                    m[1].k # m[2].k}
        more == IF maxValues >= 2 THEN two ELSE {}
    IN  {Append(m, [k |-> <<>>, v |-> <<msg>>]) :
            m \in {<<>>} \cup one \cup more, msg \in StringsUpTo(KvChars, 1)}

KeyTree == <<116, 114, 101, 101>>
KeyParent == <<112, 97, 114, 101, 110, 116>>
KeyAuthor == <<97, 117, 116, 104, 111, 114>>
KeyCommitter == <<99, 111, 109, 109, 105, 116, 116, 101, 114>>

\* a commit text: four header lines, a blank line, the message
CommitText(p) ==
    KeyTree \o <<SP>> \o p[1] \o <<NL>>
    \o KeyParent \o <<SP>> \o p[2] \o <<NL>>
    \o KeyAuthor \o <<SP>> \o p[3] \o <<NL>>
    \o KeyCommitter \o <<SP>> \o p[4] \o <<NL>>
    \o <<NL>> \o p[5]

\* the values and the message of the sample of tests::test_kvlm_parse
SampleParts ==
    <<<<50, 57, 102, 102, 49, 54, 99, 57, 99, 49, 52, 101, 50, 54, 53, 50,
      98, 50, 50, 102, 56, 98, 55, 56, 98, 98, 48, 56, 97, 53, 97, 48,
      55, 57, 51, 48, 99, 49, 52, 55>>,
      <<50, 48, 54, 57, 52, 49, 51, 48, 54, 101, 56, 97, 56, 97, 102, 54,
      53, 98, 54, 54, 101, 97, 97, 97, 101, 97, 51, 56, 56, 97, 55, 97,
      101, 50, 52, 100, 52, 57, 97, 48>>,
      <<84, 104, 105, 98, 97, 117, 108, 116, 32, 80, 111, 108, 103, 101, 32, 60,
      116, 104, 105, 98, 97, 117, 108, 116, 64, 116, 104, 98, 46, 108, 116, 62,
      32, 49, 53, 50, 55, 48, 50, 53, 48, 50, 51, 32, 43, 48, 50, 48,
      48>>,
      <<84, 104, 105, 98, 97, 117, 108, 116, 32, 80, 111, 108, 103, 101, 32, 60,
      116, 104, 105, 98, 97, 117, 108, 116, 64, 116, 104, 98, 46, 108, 116, 62,
      32, 49, 53, 50, 55, 48, 50, 53, 48, 52, 52, 32, 43, 48, 50, 48,
      48>>,
      <<67, 114, 101, 97, 116, 101, 32, 102, 105, 114, 115, 116, 32, 100, 114, 97,
      102, 116>>>>

\* the parts of commit texts: the sample, and every choice of four header
\* values and a message
CommitParts(headers, messages) ==
    {SampleParts}
    \cup {<<v1, v2, v3, v4, msg>> :
            v1 \in headers, v2 \in headers, v3 \in headers, v4 \in headers,
            msg \in messages}

\* payloads made of header lines `key SP value LF`, a blank line and a message
HeaderLines == {k \o <<SP>> \o v \o <<NL>> : k \in KvKeys, v \in {<<>>, StrA}}

LinedPayloads(maxLines) ==
    {h \o <<NL>> \o msg : h \in StringsUpTo(HeaderLines, maxLines), msg \in {<<>>, StrA}}

\* the inputs of the codec: well-formed maps, raw payloads, commit texts
KvlmInputs(values) ==
    {[kind |-> "map", parts |-> <<>>, val |-> MapOk(m)] :
        m \in WellFormedMaps(values, MaxMapValues)}
    \cup {[kind |-> "raw", parts |-> <<>>, val |-> TextOk(p)] :
             p \in StringsUpTo(KvChars, MaxRawLen) \cup LinedPayloads(MaxRawLines)}
    \cup {[kind |-> "commit", parts |-> p, val |-> TextOk(CommitText(p))] :
             p \in CommitParts(StringsUpTo(KvChars \ {<<NL>>}, MaxHeaderLen), values)}

InitKvlm ==
    /\ \E i \in KvlmInputs(StringsUpTo(KvChars, MaxValLen)) :
        /\ kin = [kind |-> i.kind, parts |-> i.parts]
        /\ kvals = <<i.val>>
        /\ ksteps = <<>>
    /\ FrameUnused
    /\ StoreUnused
    /\ FindUnused
    /\ CreateUnused
    /\ TreeUnused

KvLast == kvals[Len(kvals)]

\* kvlm_parse(raw, None, None)
KvlmParse ==
    /\ Len(ksteps) < MaxKvlmSteps
    /\ KvLast.tag = "Text"
    /\ kvals' = Append(kvals, kvlm_parse(KvLast.text, 0, <<>>))
    /\ ksteps' = Append(ksteps, "parse")
    /\ UNCHANGED <<kin, frameVars, storeVars, findVars, createVars, treeVars>>

\* kvlm_serialize(&kvlm)
KvlmSerialize ==
    /\ Len(ksteps) < MaxKvlmSteps
    /\ KvLast.tag = "Map"
    /\ kvals' = Append(kvals, kvlm_serialize(KvLast.dct))
    /\ ksteps' = Append(ksteps, "serialize")
    /\ UNCHANGED <<kin, frameVars, storeVars, findVars, createVars, treeVars>>

NextKvlm == KvlmParse \/ KvlmSerialize

SpecKvlm == InitKvlm /\ [][NextKvlm]_vars

(***************************************************************************)
(* The frame parser applied to bounded inputs                              *)
(***************************************************************************)
MaxPayloadLen == 2  \* characters in a generated payload
MaxDeclared == 11   \* largest declared length generated

TagUnknown == <<98, 108, 117, 98>>
LongPayload == <<97, 97, 97, 97, 97, 97, 97, 97, 97, 97>>

FramePayloads(maxLen) ==
    StringsUpTo({StrA, <<SP>>, <<NUL>>, <<NL>>, StrEAcute}, maxLen) \cup {LongPayload}

\* streams `tag SP decimal NUL payload` whose decimal is any number up to
\* MaxDeclared, and streams with a delimiter missing or a length that is no number
FrameInputs(payloads) ==
    {[framed |-> TRUE, tag |-> t, declared |-> n, payload |-> p,
      raw |-> t \o <<SP>> \o ToDecimal(n) \o <<NUL>> \o p] :
        t \in {TagBlob, TagCommit, TagTree, TagTag, TagUnknown},
        n \in 0..MaxDeclared, p \in payloads}
    \cup {[framed |-> FALSE, tag |-> t, declared |-> 0, payload |-> p,
            raw |-> t \o s1 \o d \o s2 \o p] :
              t \in {TagBlob, TagCommit}, s1 \in {<<>>, <<SP>>},
              d \in {<<>>, <<PlusSign, Digit0 + 1>>, StrA, <<Digit0, Digit0 + 1>>},
              s2 \in {<<>>, <<NUL>>}, p \in {<<>>, StrA}}

InitFrame ==
    /\ praw \in FrameInputs(FramePayloads(MaxPayloadLen))
    /\ pres = NotRun
    /\ KvlmUnused
    /\ StoreUnused
    /\ FindUnused
    /\ CreateUnused
    /\ TreeUnused

\* GitObject::object_read(raw, repo)
ParseFrame ==
    /\ pres = NotRun
    /\ pres' = GitObject_object_read(praw.raw)
    /\ UNCHANGED <<praw, kvlmVars, storeVars, findVars, createVars, treeVars>>

NextFrame == ParseFrame

SpecFrame == InitFrame /\ [][NextFrame]_vars

(***************************************************************************)
(* The object store: one process writes objects, another reads them.       *)
(***************************************************************************)
MaxDataLen == 1     \* characters in the data of a written object

\* the data of the object to write: none, short strings, the commit text
\* "a a\n\na"
WriteData(maxLen) ==
    {None} \cup {Some(d) : d \in StringsUpTo({StrA, <<SP>>, <<NUL>>, <<NL>>, StrEAcute}, maxLen)
                              \cup {<<97, 32, 97, 10, 10, 97>>}}

\* the store in which a blob with this data was written before
StoreHolding(data) ==
    LET sha == Sha1Hex(HashedBytes("blob", data))
        path == WriteObjectPath(sha)
    IN  [objectsKind |-> "dir", shards |-> {path[1]},
         files |-> [q \in {path} |-> Compress(FramedBytes("blob", data))]]

\* one run of the program (one object_write) on a store that is empty, that
\* lacks its objects directory or has a file in its place, or that holds a blob
InitStore ==
    /\ gitdir \in {[objectsKind |-> k, shards |-> {}, files |-> NoFiles] :
                      k \in {"dir", "absent", "file"}}
                   \cup {StoreHolding(StrA)}
    /\ writer = IdleWriter(gitdir.files)
    /\ reader = IdleReader
    /\ KvlmUnused
    /\ FrameUnused
    /\ FindUnused
    /\ CreateUnused
    /\ TreeUnused

\* what object_write has done when it returns, or when it reaches fs::write:
\* the writer and the directory after the call
ObjectWriteFrom(w, fs, object_type, data, persist) ==
    LET made == GitObject_new(data, object_type)
        ser == GitObject_serialize(made.obj)
        sha == Sha1Hex(HashedBytes(object_type, ser.text))
        path == WriteObjectPath(sha)
        called == [w EXCEPT !.call = [object_type |-> object_type, data |-> data,
                                       persist |-> persist],
                            !.pc = "returned"]
    IN  IF made.tag = "Panic" THEN <<[called EXCEPT !.res = WritePanic(made.msg)], fs>>
        ELSE IF ser.tag = "Panic" THEN <<[called EXCEPT !.res = WritePanic("serialize")], fs>>
        ELSE IF ~persist THEN <<[called EXCEPT !.sha = sha, !.res = WriteOk(sha)], fs>>
        ELSE IF ~ShardIsDir(fs, path[1]) /\ ~CanCreateShard(fs)
        THEN <<[called EXCEPT !.sha = sha,
                              !.res = WriteErr("could not create path for object")], fs>>
        ELSE <<[called EXCEPT !.pc = "writing", !.sha = sha, !.path = path,
                              !.buf = Compress(FramedBytes(object_type, ser.text)),
                              !.res = WriteNone],
               CreateFile(CreateShard(fs, path[1]), path)>>

\* GitObject::new(&repo, data, Some(object_type))?.object_write(Some(persist)),
\* up to the creation of the file by fs::write
ObjectWrite ==
    /\ writer.pc = "start"
    /\ \E t \in GitObjectTypes, d \in WriteData(MaxDataLen), p \in BOOLEAN :
          LET after == ObjectWriteFrom(writer, gitdir, t, d, p)
          IN  writer' = after[1] /\ gitdir' = after[2]
    /\ UNCHANGED <<reader, kvlmVars, frameVars, findVars, createVars, treeVars>>

\* fs::write: one write(2) of the next bytes; after the last one object_write
\* returns Ok(sha)
FsWriteChunk ==
    /\ writer.pc = "writing"
    /\ LET done == Len(gitdir.files[writer.path])
       IN  \E k \in 1..(Len(writer.buf) - done) :
             /\ gitdir' = AppendFile(gitdir, writer.path,
                                      SubSeq(writer.buf, done + 1, done + k))
             /\ writer' = IF done + k = Len(writer.buf)
                           THEN [writer EXCEPT !.pc = "returned", !.res = WriteOk(writer.sha)]
                           ELSE writer
    /\ UNCHANGED <<reader, kvlmVars, frameVars, findVars, createVars, treeVars>>

\* fs::write: a write(2) fails; object_write returns the io::Error
FsWriteFail ==
    /\ writer.pc = "writing"
    /\ writer' = [writer EXCEPT !.pc = "returned", !.res = WriteErr("io error")]
    /\ UNCHANGED <<gitdir, reader, kvlmVars, frameVars, findVars, createVars, treeVars>>

\* the names a reader asks for: the digest of the object being written or
\* written, a digest nothing was stored under, a name of one character
ReadNames == {writer.sha, Sha1Hex(<<>>), StrA} \ {<<>>}

\* RGitRepository::object_read(sha), by another process at any moment
ObjectRead ==
    /\ \E sha \in ReadNames :
          reader' = [sha |-> sha, res |-> Repo_object_read(gitdir, sha),
                     after |-> writer.pc = "returned"]
    /\ reader' # reader
    /\ UNCHANGED <<gitdir, writer, kvlmVars, frameVars, findVars, createVars, treeVars>>

NextStore == ObjectWrite \/ FsWriteChunk \/ FsWriteFail \/ ObjectRead

SpecStore == InitStore /\ [][NextStore]_vars

(***************************************************************************)
(* Discovery: one call of repo_find on a tree of directories               *)
(***************************************************************************)
MaxDepth == 4       \* depth of the deepest directory

Dirs == RootDir..MaxDepth

\* the config files: version 0, version 1, the key without a value, no key,
\* no section, a file Ini::load rejects, no file
Configs ==
    {Config(TRUE, TRUE, TRUE, TRUE, VersionZero),
     Config(TRUE, TRUE, TRUE, TRUE, VersionOne),
     Config(TRUE, TRUE, TRUE, TRUE, None),
     Config(TRUE, TRUE, TRUE, FALSE, None),
     Config(TRUE, TRUE, FALSE, FALSE, None),
     Config(TRUE, FALSE, FALSE, FALSE, None),
     NoConf}

\* the paths a caller passes: absolute, through a symbolic link, naming nothing
StartPaths == {AbsPath(n) : n \in Dirs} \cup {LinkPath(n) : n \in Dirs} \cup {MissingPath}

\* None of Option<P> and of Option<bool>
NoPath == [some |-> FALSE, val |-> MissingPath]
NoBool == [some |-> FALSE, val |-> FALSE]

\* each directory has no entry .git, a directory .git or a file .git
InitFind ==
    /\ disk \in {[git |-> g, conf |-> c, cwd |-> w] :
                    g \in [Dirs -> {"none", "dir", "file"}], c \in Configs, w \in Dirs}
    /\ finder = IdleFinder
    /\ KvlmUnused
    /\ FrameUnused
    /\ StoreUnused
    /\ CreateUnused
    /\ TreeUnused

\* what a level of repo_find leaves: the result, or the recursive call pending
AfterLevel(f, level) ==
    [f EXCEPT !.pc = IF level.done THEN "done" ELSE "recurse",
              !.path = level.path, !.res = level.res]

\* repo_find(path, required) as a caller invokes it: the defaults "." and true,
\* then the first level
RepoFind ==
    /\ finder.pc = "start"
    /\ \E path \in {NoPath} \cup {Some(p) : p \in StartPaths},
          required \in {NoBool, Some(TRUE), Some(FALSE)} :
          LET p == IF path.some THEN path.val ELSE DotPath(disk.cwd)
              r == IF required.some THEN required.val ELSE TRUE
          IN  finder' = AfterLevel([finder EXCEPT !.start = p, !.required = r],
                                   repo_find(disk, p, r))
    /\ UNCHANGED <<disk, kvlmVars, frameVars, storeVars, createVars, treeVars>>

\* return repo_find(Some(parent), Some(required))
RepoFindRecurse ==
    /\ finder.pc = "recurse"
    /\ finder' = AfterLevel(finder, repo_find(disk, finder.path, finder.required))
    /\ UNCHANGED <<disk, kvlmVars, frameVars, storeVars, createVars, treeVars>>

NextFind == RepoFind \/ RepoFindRecurse

SpecFind == InitFind /\ [][NextFind]_vars

\* the search is a running computation: a pending level is eventually run
SpecFindFair == SpecFind /\ WF_vars(NextFind)

(***************************************************************************)
(* Creation: repo_create and RGitRepository::init(path, false) on a site   *)
(***************************************************************************)
MaxCreates == 2     \* calls of repo_create

\* the config files: none, one that does not load, an empty one, core without
\* the version key, the key without a value, version 0, version 1
IniFiles ==
    {NoIniFile, BadIniFile, IniFile(<<>>),
     IniFile(<<IniEntry("core", "filemode", Some(StrFalse))>>),
     IniFile(<<IniEntry("core", "repositoryformatversion", None)>>),
     IniFile(<<IniEntry("core", "repositoryformatversion", VersionZero)>>),
     IniFile(<<IniEntry("core", "repositoryformatversion", VersionOne)>>)}

\* the sites: nothing at the path, a file, a directory with or without other
\* entries and with any .git
Sites ==
    {AbsentSite, [AbsentSite EXCEPT !.kind = "file"]}
    \cup {[AbsentSite EXCEPT !.kind = "dir", !.others = o, !.git = g] :
            o \in BOOLEAN, g \in {"none", "file"}}
    \cup {[kind |-> "dir", others |-> o, git |-> "dir", dirs |-> d,
           description |-> None, head |-> h, config |-> c] :
            o \in BOOLEAN, d \in SUBSET {<<"objects">>, <<"refs">>},
            h \in {None, Some(HeadTextMain)}, c \in IniFiles}

InitCreate ==
    /\ site \in Sites
    /\ creator = IdleCreator
    /\ KvlmUnused
    /\ FrameUnused
    /\ StoreUnused
    /\ FindUnused
    /\ TreeUnused

\* repo_create(path)
RepoCreate ==
    /\ creator.calls < MaxCreates
    /\ \E failAt \in 0..Len(CreateOps) :
          LET after == repo_create(site, failAt)
          IN  /\ site' = after[2]
              /\ creator' = [creator EXCEPT !.calls = @ + 1, !.res = after[1],
                                            !.before = site]
    /\ UNCHANGED <<kvlmVars, frameVars, storeVars, findVars, treeVars>>

\* RGitRepository::init(path, false)
RepoOpen ==
    /\ creator' = [creator EXCEPT
                     !.opened = RGitRepository_init(SiteDisk(site), SitePath, FALSE)]
    /\ creator' # creator
    /\ UNCHANGED <<site, kvlmVars, frameVars, storeVars, findVars, treeVars>>

NextCreate == RepoCreate \/ RepoOpen

SpecCreate == InitCreate /\ [][NextCreate]_vars

(***************************************************************************)
(* The tree parser applied to bounded inputs                               *)
(***************************************************************************)
MaxEntries == 2     \* entries in a generated tree payload

\* "100644" and "40000"
ModeFile == <<49, 48, 48, 54, 52, 52>>
ModeDir == <<52, 48, 48, 48, 48>>

\* digests that are text: twenty bytes 'a', the bytes 0 to 19
DigestA == [i \in 1..ShaBytes |-> StrA[1]]
DigestLow == [i \in 1..ShaBytes |-> i - 1]

\* the entries of tree payloads
TreeEntries ==
    {[mode |-> mo, path |-> p, digest |-> d] :
        mo \in {ModeFile, ModeDir}, p \in {StrA, StrB, StrA \o <<SP>> \o StrB},
        d \in {DigestA, DigestLow}}

\* <mode> SP <path> NUL <digest>
EntryBytes(e) == e.mode \o <<SP>> \o e.path \o <<NUL>> \o e.digest

RECURSIVE TreeBytes(_)
TreeBytes(entries) ==
    IF entries = <<>> THEN <<>> ELSE EntryBytes(entries[1]) \o TreeBytes(Tail(entries))

RECURSIVE EntryLists(_)
\* the lists of 1..n entries
EntryLists(n) ==
    IF n = 0 THEN {}
    ELSE {<<e>> : e \in TreeEntries}
         \cup {Append(l, e) : l \in EntryLists(n - 1), e \in TreeEntries}

\* payloads of well-formed entries, and payloads that are none: empty, without
\* a space, with a mode of three characters, cut short
TreeInputs(lists) ==
    {[wellformed |-> TRUE, entries |-> l, raw |-> TreeBytes(l)] : l \in lists}
    \cup {[wellformed |-> FALSE, entries |-> <<>>, raw |-> r] :
            r \in {<<>>, StrA, ModeFile, SubSeq(ModeDir, 1, 3) \o <<SP>> \o StrA,
                   ModeFile \o <<SP>> \o StrA \o <<NUL>> \o StrA}}

InitTree ==
    /\ tin \in TreeInputs(EntryLists(MaxEntries))
    /\ tres = TreeNotRun
    /\ KvlmUnused
    /\ FrameUnused
    /\ StoreUnused
    /\ FindUnused
    /\ CreateUnused

\* tree_parse(raw)
TreeParse ==
    /\ tres = TreeNotRun
    /\ tres' = tree_parse(tin.raw)
    /\ UNCHANGED <<tin, kvlmVars, frameVars, storeVars, findVars, createVars>>

NextTree == TreeParse

SpecTree == InitTree /\ [][NextTree]_vars

(***************************************************************************)
(* Claims about the KVLM codec                                             *)
(***************************************************************************)
\* the map the claim C7 expects of a commit text built from parts p
ExpectedCommitMap(p) ==
    <<[k |-> KeyTree, v |-> <<p[1]>>],
      [k |-> KeyParent, v |-> <<p[2]>>],
      [k |-> KeyAuthor, v |-> <<p[3]>>],
      [k |-> KeyCommitter, v |-> <<p[4]>>],
      [k |-> <<>>, v |-> <<p[5]>>]>>

\* C5: for every well-formed KVLM m, encoding succeeds, decode(encode(m)) = m,
\* and encode(decode(b)) = b for the b = encode(m) that encode produced.
C5_RoundTrip ==
    kin.kind = "map" =>
        /\ Len(kvals) >= 2 => kvals[2].tag = "Text"
        /\ Len(kvals) >= 3 => kvals[3] = kvals[1]
        /\ Len(kvals) >= 4 => kvals[4] = kvals[2]

\* C6: for every payload p the decoder accepts, re-encoding the decoded map
\* reproduces p byte for byte.
C6_ReencodeReproduces ==
    (kin.kind = "raw" /\ Len(kvals) >= 3 /\ kvals[2].tag = "Map") =>
        kvals[3] = kvals[1]

\* C7: decoding a commit text of four header lines, a blank line and a message
\* yields one entry per key in order of appearance, each with the single value
\* that follows the line's first space, and the message verbatim.
C7_CommitTextDecoded ==
    (kin.kind = "commit" /\ Len(kvals) >= 2) =>
        kvals[2] = MapOk(ExpectedCommitMap(kin.parts))

(***************************************************************************)
(* Claims about the frame parser                                           *)
(***************************************************************************)
BadLength == ObjErr("malformed object: bad length")

\* C4: on a stream `tag SP decimal NUL payload` whose declared length differs
\* from the number of payload bytes, GitObject::object_read fails with the
\* malformed-object error and returns no object; when it returns an object, the
\* two lengths are equal and the object holds exactly the payload.
C4_LengthGuard ==
    (praw.framed /\ pres # NotRun) =>
        /\ praw.declared # Len(praw.payload) => pres = BadLength
        /\ pres.tag = "Ok" =>
              /\ praw.declared = Len(praw.payload)
              /\ pres.obj.data = Some(praw.payload)

\* a stream declaring fewer bytes than it carries has been rejected
C4_Witness ==
    /\ praw.framed
    /\ praw.tag = TagBlob
    /\ praw.declared < Len(praw.payload)
    /\ pres = BadLength

(***************************************************************************)
(* Claims about the object store                                           *)
(***************************************************************************)
WriteReturned == writer.pc = "returned"

IsLowerHex(b) == IsDigit(b) \/ (b >= 97 /\ b <= 102)

\* C1: for every object type and payload and either value of the persist
\* flag, object_write returns the digest of `tag SP length NUL payload`, as 40
\* lowercase hex characters (a failure of the file system aside).
C1_DigestOfFramedBytes ==
    (WriteReturned /\ writer.call.data.some /\ writer.res.tag # "Err") =>
        /\ writer.res.tag = "Ok"
        /\ Len(writer.res.sha) = 40
        /\ \A i \in 1..Len(writer.res.sha) : IsLowerHex(writer.res.sha[i])
        /\ writer.call.object_type = "blob" =>
              writer.res.sha = Sha1Hex(TypeFmt("blob") \o <<SP>>
                                       \o ToDecimal(Len(writer.call.data.val))
                                       \o <<NUL>> \o writer.call.data.val)

\* C2: once object_write of a blob with payload p and persist = true has
\* returned the digest d, the file objects/<d[1..2]>/<d[3..40]> exists, it
\* decompresses to `blob SP length NUL p`, and object_read(d) returns a blob
\* holding exactly p.
C2_PersistedBlobReadable ==
    (WriteReturned /\ writer.call.object_type = "blob" /\ writer.call.persist
       /\ writer.res.tag = "Ok") =>
        LET d == writer.res.sha
            p == writer.call.data.val
            path == <<SubSeq(d, 1, 2), SubSeq(d, 3, 40)>>
            blob == [object_type |-> "blob", data |-> Some(p), kvlm |-> None]
        IN  /\ Len(d) = 40
            /\ path \in DOMAIN gitdir.files
            /\ Decompress(gitdir.files[path])
                 = TextOk(TagBlob \o <<SP>> \o ToDecimal(Len(p)) \o <<NUL>> \o p)
            /\ Repo_object_read(gitdir, d) = ObjOk(blob)
            /\ (reader.sha = d /\ reader.after) => reader.res = ObjOk(blob)

\* a persisted blob with a payload has been read back after the write returned
C2_Witness ==
    /\ WriteReturned
    /\ writer.call.object_type = "blob"
    /\ writer.call.persist
    /\ writer.res.tag = "Ok"
    /\ Len(writer.call.data.val) > 1
    /\ reader.sha = writer.res.sha
    /\ reader.after
    /\ reader.res.tag = "Ok"
    /\ reader.res.obj.data = writer.call.data

\* C3: a file at an object's final path always holds the complete compressed
\* object, while object_write runs and after it has failed, and no reader fails
\* to decompress what it finds there.
C3_NoPartialObjectVisible ==
    /\ \A path \in DOMAIN gitdir.files : Decompress(gitdir.files[path]).tag = "Text"
    /\ reader.res.msg # "could not read to string"

\* C8: object_write of a commit that carries no KVLM returns no digest and
\* leaves the store as it was.
C8_CommitWithoutKvlmFails ==
    (WriteReturned /\ writer.call.object_type = "commit" /\ ~writer.call.data.some) =>
        /\ writer.res.tag # "Ok"
        /\ gitdir.files = writer.before

(***************************************************************************)
(* Claims about discovery                                                  *)
(***************************************************************************)
\* the directories with a directory .git among the start directory and its
\* ancestors
GitDirsAbove(start) == {n \in RootDir..start.dir : disk.git[n] = "dir"}

\* the deepest of a non-empty set of directories
Deepest(S) == CHOOSE n \in S : \A m \in S : m <= n

\* the path on which the search reaches directory n
PathAt(start, n) == IF n = start.dir THEN start ELSE AbsPath(n)

GoodConf == disk.conf.core /\ disk.conf.key /\ disk.conf.value \in {None, VersionZero}

\* C9: repo_find started on an existing path returns the repository rooted at
\* the nearest directory, among the start directory and its ancestors, that
\* has a directory .git: a repository it returns is rooted there, its result is
\* that of opening that directory, and with a supported config it returns one.
C9_NearestRepository ==
    (finder.pc = "done" /\ PathExists(finder.start)) =>
        LET above == GitDirsAbove(finder.start)
        IN  /\ (finder.res.tag = "Ok" /\ finder.res.repo.some) =>
                  /\ above # {}
                  /\ finder.res.repo.val.work_tree.dir = Deepest(above)
            /\ above # {} =>
                  /\ finder.res = RGitRepository_init(
                                      disk, PathAt(finder.start, Deepest(above)), FALSE)
                  /\ GoodConf => (finder.res.tag = "Ok" /\ finder.res.repo.some)

\* a search started three levels below a repository root, under a file .git and
\* with a more distant repository above the root, has returned the root
C9_Witness ==
    /\ finder.pc = "done"
    /\ PathExists(finder.start)
    /\ finder.start.dir = RootDir + 4
    /\ disk.git[finder.start.dir] = "none"
    /\ disk.git[finder.start.dir - 1] = "file"
    /\ disk.git[finder.start.dir - 2] = "none"
    /\ disk.git[finder.start.dir - 3] = "dir"
    /\ disk.git[RootDir] = "dir"
    /\ finder.res.tag = "Ok"
    /\ finder.res.repo.some
    /\ finder.res.repo.val.work_tree = AbsPath(finder.start.dir - 3)

\* the outcomes of a search that found no repository
NotFound == {RepoErr("No git directory"), RepoNone}

\* C10: repo_find terminates on every start path, and a search that reaches
\* the root without finding a directory .git ends there without a repository:
\* with the error "No git directory", or with None when not required.
C10_Terminates ==
    <>(/\ finder.pc = "done"
       /\ (PathExists(finder.start) /\ GitDirsAbove(finder.start) = {}) =>
             (finder.path.dir = RootDir /\ finder.res \in NotFound))

\* a search started three levels deep with no directory .git above it has
\* walked to the root and failed there
C10_Witness ==
    /\ finder.pc = "done"
    /\ finder.start.form = "abs"
    /\ finder.start.dir >= RootDir + 3
    /\ GitDirsAbove(finder.start) = {}
    /\ finder.path = AbsPath(RootDir)
    /\ finder.required
    /\ finder.res = RepoErr("No git directory")

(***************************************************************************)
(* Claims about creation                                                   *)
(***************************************************************************)
\* an empty directory, or nothing at all
EmptyOrAbsent(s) == s.kind = "absent" \/ (s.kind = "dir" /\ ~s.others /\ s.git = "none")

\* C11: after repo_create has succeeded on an empty or absent directory, .git
\* holds HEAD with exactly "ref: refs/heads/master\n", a config whose section
\* core has repositoryformatversion = 0, filemode = false and bare = false, a
\* description file, and the directories objects, refs/tags, refs/heads and
\* branches.
C11_CreatedLayout ==
    (creator.res.tag = "Ok" /\ EmptyOrAbsent(creator.before)) =>
        /\ site.kind = "dir"
        /\ site.git = "dir"
        /\ site.head = Some(<<114, 101, 102, 58, 32, 114, 101, 102, 115, 47, 104, 101,
                              97, 100, 115, 47, 109, 97, 115, 116, 101, 114, 10>>)
        /\ site.config.exists
        /\ site.config.parses
        /\ IniHasKey(site.config.entries, "core", "repositoryformatversion")
        /\ IniValue(site.config.entries, "core", "repositoryformatversion") = Some(<<48>>)
        /\ IniHasKey(site.config.entries, "core", "filemode")
        /\ IniValue(site.config.entries, "core", "filemode") = Some(<<102, 97, 108, 115, 101>>)
        /\ IniHasKey(site.config.entries, "core", "bare")
        /\ IniValue(site.config.entries, "core", "bare") = Some(<<102, 97, 108, 115, 101>>)
        /\ site.description.some
        /\ {<<"objects">>, <<"refs", "tags">>, <<"refs", "heads">>, <<"branches">>}
              \subseteq site.dirs

\* repo_create has succeeded on a path where nothing was
C11_Witness ==
    /\ creator.res.tag = "Ok"
    /\ creator.before.kind = "absent"
    /\ site.git = "dir"
    /\ site.head.some
    /\ <<"refs", "heads">> \in site.dirs

\* C12: RGitRepository::init(path, false) succeeds only if the config file
\* exists and has the key repositoryformatversion in core with the value "0";
\* without the file, without the key, with the key without a value or with
\* another value, it fails.
C12_OpenNeedsVersionZero ==
    creator.opened # RepoNotRun =>
        LET entries == site.config.entries
            versionZero ==
                /\ site.config.exists
                /\ IniHasKey(entries, "core", "repositoryformatversion")
                /\ IniValue(entries, "core", "repositoryformatversion") = Some(<<48>>)
        IN  /\ creator.opened.tag = "Ok" => versionZero
            /\ ~versionZero => creator.opened.tag \in {"Err", "Panic"}

(***************************************************************************)
(* Claims about reading objects                                            *)
(***************************************************************************)
\* C13: whatever stream the store holds for a digest, reading the object ends
\* with an object or with an error returned to the caller: a missing space or
\* NUL, a length that is no number, an unknown tag, or a well-framed object of
\* any of the four types never makes GitObject::object_read panic.
C13_ReadNeverAborts == pres.tag # "Panic"

(***************************************************************************)
(* Claims about the tree parser                                            *)
(***************************************************************************)
\* C14: tree_parse of a payload made of n >= 1 well-formed entries
\* `<mode> SP <path> NUL <20 digest bytes>` returns those n entries in input
\* order, each with its own mode, path and digest (in hex).
C14_TreeParsed ==
    (tin.wellformed /\ tres # TreeNotRun) =>
        /\ tres.tag = "Ok"
        /\ Len(tres.leaves) = Len(tin.entries)
        /\ \A i \in 1..Len(tin.entries) :
              /\ tres.leaves[i].mode = tin.entries[i].mode
              /\ tres.leaves[i].path = tin.entries[i].path
              /\ tres.leaves[i].sha = HexNibbles(tin.entries[i].digest)

====
